---- MODULE Spec2Model ----
(***************************************************************************)
(* Model of the node-feature-discovery operator's reconcile engine:       *)
(*   - addResourcesControls (controllers/nodefeaturediscovery_resources.go)*)
(*     builds one stage (a Resources bundle and its control functions)     *)
(*     from a directory of manifests;                                      *)
(*   - NFD.init / NFD.addState / NFD.step / NFD.last walk the stages;      *)
(*   - NodeFeatureDiscoveryReconciler.Reconcile drives them.               *)
(* The stepper is the package-level variable nfd, shared by every          *)
(* Reconcile invocation.                                                   *)
(***************************************************************************)
EXTENDS Integers, Sequences, FiniteSets, TLC

\* ------------------------------------------------------------------ bounds

\* Largest number of manifest files in one directory when progress of the
\* dispatcher's retries is explored.
MaxLiveFiles == 1

\* Largest number of manifest files in one directory.
MaxFiles == 2

\* Largest number of manifest files in one directory when Reconcile
\* invocations overlap.
MaxConcFiles == 1

\* Largest number of manifest files in the master directory when the stage
\* builder is explored over every kind.
MaxBuildFiles == 2

\* ------------------------------------------------------- program constants

\* Reconcile invocations that may be in flight (workers of the dispatcher).
Procs == {1, 2}

\* Names of the managed NodeFeatureDiscovery instances a request may carry.
Instances == {"a", "b"}

\* The two manifest directories of NFD.init, in the order it adds them.
Paths == <<"/opt/nfd/master", "/opt/nfd/worker">>

\* The fields of the Resources struct.
ResourcesFields ==
    {"Namespace", "ServiceAccount", "Role", "RoleBinding", "ClusterRole",
     "ClusterRoleBinding", "ConfigMap", "DaemonSet", "Pod", "Service",
     "SecurityContextConstraints"}

\* The cases of the switch in addResourcesControls.
SwitchKinds ==
    {"Namespace", "ServiceAccount", "ClusterRole", "ClusterRoleBinding",
     "Role", "RoleBinding", "ConfigMap", "DaemonSet", "Service",
     "SecurityContextConstraints"}

\* A manifest in which the kind regexp matches nothing.
NoKind == "<none>"

\* The values of a control function's ResourceStatus, and "Error" for a
\* call that returns a non-nil error.
Ready == "Ready"
NotReady == "NotReady"
CtlError == "Error"
ControlResults == {Ready, NotReady, CtlError}

\* error values
NilErr == "nil"
ResourceNotReady == "ResourceNotReady"
ControlErr == "controlErr"
FetchErr == "fetchErr"

\* The zero value of a Resources field, and of the Resources struct.
ZeroValue == 0
ZeroResources == [k \in ResourcesFields |-> ZeroValue]

\* --------------------------------------------------------------- manifests

\* A manifest file is a record of the kind its text carries and whether the
\* YAML serializer can decode it into the struct of that kind.

\* Kinds of the manifests the reconcile specifications put in a directory:
\* two recognized kinds and one the switch does not know.
FsKinds == {"Namespace", "DaemonSet", "Frobnicator"}

FsManifests ==
    {m \in [kind : FsKinds, decodes : BOOLEAN] :
        m.kind \in SwitchKinds \/ m.decodes}

SeqsUpTo(S, n) == UNION {[1..k -> S] : k \in 0..n}

FsDirs == SeqsUpTo(FsManifests, MaxFiles)

\* Kinds of the manifests the stage-builder specification puts in the
\* master directory: every field of Resources, a kind unknown to the
\* switch, and a manifest without a kind.
BuildKinds == ResourcesFields \cup {"Frobnicator", NoKind}

BuildManifests ==
    {m \in [kind : BuildKinds, decodes : BOOLEAN] :
        m.kind \in SwitchKinds \/ m.decodes}

BuildDirs == SeqsUpTo(BuildManifests, MaxBuildFiles)

\* The worker directories of the stage-builder specification.
BuildWorkerDirs == {<<>>, <<[kind |-> "DaemonSet", decodes |-> TRUE]>>}

VARIABLES
    fs,         \* path -> the manifests of the directory, in walk order
    controls,   \* nfd.controls: one list of control functions per stage
    resources,  \* nfd.resources: one Resources bundle per stage
    rec,        \* nfd.rec
    ins,        \* nfd.ins
    idx,        \* nfd.idx
    aborted,    \* a panic has unwound Reconcile and ended the process
    pc,         \* per Reconcile invocation: its position
    instance,   \* per invocation: the instance it fetched
    fetched,    \* per invocation: outcome of r.Get
    rng,        \* per invocation: the slice step() ranges over
    j,          \* per invocation: position in that slice
    stepErr,    \* per invocation: what step() returned
    result,     \* per invocation: what Reconcile returned
    hist        \* per invocation: record of the pass so far (history)

nfdVars == <<controls, resources, rec, ins, idx>>
vars == <<fs, controls, resources, rec, ins, idx, aborted,
          pc, instance, fetched, rng, j, stepErr, result, hist>>

NoResult == [requeue |-> FALSE, err |-> "none"]

\* History of one pass: the control-function calls made, the number of
\* init() and step() calls, the cursor at entry to the running step(), what
\* each last() returned, whether init() found the stages built, and the
\* number of "Unknown Resource" events the pass logged.
EmptyHist ==
    [calls |-> <<>>, inits |-> 0, steps |-> 0, okSteps |-> 0,
     entryIdx |-> -1, lasts |-> <<>>, reused |-> FALSE, skips |-> 0]

\* ----------------------------------------------------------- stage builder

\* getAssetsFrom: the contents of every file under the path, in walk order.
getAssetsFrom(path) == fs[path]

\* The kind label addResourcesControls extracts from a manifest: the text
\* after the colon of the regexp match. With no match FindString returns
\* "", Split returns a single element, and slce[1] is out of range.
KindPanics(m) == m.kind = NoKind

\* A loop body whose default case appends a control function too.
addOneAppendsUnknown(acc, m, i) ==
    IF acc.panicked THEN acc
    ELSE IF KindPanics(m) THEN [acc EXCEPT !.panicked = TRUE]
    ELSE IF m.kind \in SwitchKinds
         THEN IF m.decodes
              THEN [acc EXCEPT !.res[m.kind] = i,
                               !.ctrl = Append(acc.ctrl, m.kind)]
              ELSE [acc EXCEPT !.panicked = TRUE]
         ELSE [acc EXCEPT !.skips = acc.skips + 1,
                          !.ctrl = Append(acc.ctrl, m.kind)]

\* A loop body that appends one control function per kind only.
addOneOncePerKind(acc, m, i) ==
    IF acc.panicked THEN acc
    ELSE IF KindPanics(m) THEN [acc EXCEPT !.panicked = TRUE]
    ELSE IF m.kind \in SwitchKinds
         THEN IF m.decodes
              THEN [acc EXCEPT !.res[m.kind] = i,
                               !.ctrl = IF acc.res[m.kind] = ZeroValue
                                        THEN Append(acc.ctrl, m.kind)
                                        ELSE acc.ctrl]
              ELSE [acc EXCEPT !.panicked = TRUE]
         ELSE [acc EXCEPT !.skips = acc.skips + 1]

\* A loop body that keeps the first decode of a kind.
addOneFirstWins(acc, m, i) ==
    IF acc.panicked THEN acc
    ELSE IF KindPanics(m) THEN [acc EXCEPT !.panicked = TRUE]
    ELSE IF m.kind \in SwitchKinds
         THEN IF m.decodes
              THEN [acc EXCEPT !.res[m.kind] = IF acc.res[m.kind] = ZeroValue
                                               THEN i ELSE acc.res[m.kind],
                               !.ctrl = Append(acc.ctrl, m.kind)]
              ELSE [acc EXCEPT !.panicked = TRUE]
         ELSE [acc EXCEPT !.skips = acc.skips + 1]

\* One iteration of the loop over the manifests. acc holds res, ctrl, the
\* number of "Unknown Resource" log events and whether a panic has ended
\* the loop; i is the position of manifest m in the directory. A decoded
\* field holds the position of the file it was decoded from.
addOne(acc, m, i) ==
    IF acc.panicked THEN acc
    ELSE IF KindPanics(m) THEN [acc EXCEPT !.panicked = TRUE]
    ELSE IF m.kind \in SwitchKinds
         THEN IF m.decodes
              THEN [acc EXCEPT !.res[m.kind] = i,
                               !.ctrl = Append(acc.ctrl, m.kind)]
              ELSE [acc EXCEPT !.panicked = TRUE]
         ELSE [acc EXCEPT !.skips = acc.skips + 1]

RECURSIVE addLoop(_, _, _)
addLoop(acc, manifests, i) ==
    IF i > Len(manifests) THEN acc
    ELSE addLoop(addOne(acc, manifests[i], i), manifests, i + 1)

\* addResourcesControls(path): the Resources bundle and the control
\* functions of one directory (a control function is named by its kind).
addResourcesControls(path) ==
    addLoop([res |-> ZeroResources, ctrl |-> <<>>, skips |-> 0,
             panicked |-> FALSE],
            getAssetsFrom(path), 1)

\* ----------------------------------------------------------------- stepper

\* A last() that already holds on the final stage.
lastOffByOne == idx >= Len(controls) - 1

\* NFD.last
last == idx = Len(controls)

\* The stepper's fields, as one value.
nfd == [controls |-> controls, resources |-> resources, rec |-> rec,
        ins |-> ins, idx |-> idx]

\* The state after package initialisation, with the master directory among
\* mdirs and the worker directory among wdirs: nfd is the zero NFD and no
\* Reconcile is in flight.
InitWith(mdirs, wdirs) ==
    /\ \E m \in mdirs, w \in wdirs : fs = (Paths[1] :> m @@ Paths[2] :> w)
    /\ controls = <<>>
    /\ resources = <<>>
    /\ rec = "nil"
    /\ ins = "nil"
    /\ idx = 0
    /\ aborted = FALSE
    /\ pc = [p \in Procs |-> "idle"]
    /\ instance = [p \in Procs |-> "nil"]
    /\ fetched = [p \in Procs |-> "none"]
    /\ rng = [p \in Procs |-> <<>>]
    /\ j = [p \in Procs |-> 0]
    /\ stepErr = [p \in Procs |-> NilErr]
    /\ result = [p \in Procs |-> NoResult]
    /\ hist = [p \in Procs |-> EmptyHist]

InitOver(dirs) == InitWith(dirs, dirs)

Init == InitOver(FsDirs)

\* A fetch branch that forgets the not-found case.
fetchBranchNoNotFound(got) ==
    IF got = "error"
    THEN [return |-> TRUE, requeue |-> TRUE, err |-> FetchErr]
    ELSE [return |-> FALSE, requeue |-> FALSE, err |-> NilErr]

\* A fetch branch that returns a zero Result with the fetch error.
fetchBranchErrorZeroResult(got) ==
    IF got = "notfound"
    THEN [return |-> TRUE, requeue |-> FALSE, err |-> NilErr]
    ELSE IF got = "error"
    THEN [return |-> TRUE, requeue |-> FALSE, err |-> FetchErr]
    ELSE [return |-> FALSE, requeue |-> FALSE, err |-> NilErr]

\* Reconcile, lines 152-164: what the outcome of r.Get makes Reconcile do:
\* on not-found return (Requeue false, nil), on another error return
\* (Requeue true, err), otherwise go on.
fetchBranch(got) ==
    IF got = "notfound"
    THEN [return |-> TRUE, requeue |-> FALSE, err |-> NilErr]
    ELSE IF got = "error"
    THEN [return |-> TRUE, requeue |-> TRUE, err |-> FetchErr]
    ELSE [return |-> FALSE, requeue |-> FALSE, err |-> NilErr]

\* Reconcile, lines 141-166: fetch the instance named by the request and
\* return, or go on to nfd.init with the instance.
Reconcile(p) ==
    /\ ~aborted
    /\ pc[p] = "idle"
    /\ \E i \in Instances, got \in {"ok", "notfound", "error"} :
        LET br == fetchBranch(got) IN
        /\ fetched' = [fetched EXCEPT ![p] = got]
        /\ hist' = [hist EXCEPT ![p] = EmptyHist]
        /\ IF br.return
           THEN /\ result' = [result EXCEPT
                        ![p] = [requeue |-> br.requeue, err |-> br.err]]
                /\ pc' = [pc EXCEPT ![p] = "done"]
                /\ UNCHANGED instance
           ELSE /\ instance' = [instance EXCEPT ![p] = i]
                /\ pc' = [pc EXCEPT ![p] = "init"]
                /\ UNCHANGED result
    /\ UNCHANGED <<fs, nfdVars, aborted, rng, j, stepErr>>

\* NFD.init, lines 242-245: bind the reconciler and the instance, reset the
\* cursor, and go on to build the stages when noStages holds.
initWhen(p, noStages) ==
    /\ ~aborted
    /\ pc[p] = "init"
    /\ rec' = "r"
    /\ ins' = instance[p]
    /\ idx' = 0
    /\ hist' = [hist EXCEPT ![p].inits = @ + 1,
                            ![p].reused = Len(controls) # 0]
    /\ pc' = [pc EXCEPT ![p] = IF noStages THEN "addMaster" ELSE "step"]
    /\ UNCHANGED <<fs, controls, resources, aborted, instance, fetched,
                   rng, j, stepErr, result>>

\* An init() that builds the stages on every call.
initAlwaysBuilds(p) == initWhen(p, TRUE)

\* NFD.init, line 245: the stages are built when len(n.controls) == 0.
init(p) == initWhen(p, Len(controls) = 0)

\* An addState() whose panic is recovered: Reconcile returns an error and
\* the process goes on.
addStateRecovers(p, at, path, next) ==
    /\ ~aborted
    /\ pc[p] = at
    /\ LET built == addResourcesControls(path) IN
        IF built.panicked
        THEN /\ result' = [result EXCEPT
                    ![p] = [requeue |-> FALSE, err |-> "panic"]]
             /\ pc' = [pc EXCEPT ![p] = "done"]
             /\ UNCHANGED <<controls, resources, hist>>
        ELSE /\ controls' = Append(controls, built.ctrl)
             /\ resources' = Append(resources, built.res)
             /\ hist' = [hist EXCEPT ![p].skips = @ + built.skips]
             /\ pc' = [pc EXCEPT ![p] = next]
             /\ UNCHANGED result
    /\ UNCHANGED <<fs, rec, ins, idx, aborted, instance, fetched, rng, j,
                   stepErr>>

\* An addState() that puts the bundle in front of the bundle list.
addStateBundleInFront(p, at, path, next) ==
    /\ ~aborted
    /\ pc[p] = at
    /\ LET built == addResourcesControls(path) IN
        IF built.panicked
        THEN /\ aborted' = TRUE
             /\ pc' = [pc EXCEPT ![p] = "panicked"]
             /\ UNCHANGED <<controls, resources, hist>>
        ELSE /\ controls' = Append(controls, built.ctrl)
             /\ resources' = <<built.res>> \o resources
             /\ hist' = [hist EXCEPT ![p].skips = @ + built.skips]
             /\ pc' = [pc EXCEPT ![p] = next]
             /\ UNCHANGED aborted
    /\ UNCHANGED <<fs, rec, ins, idx, instance, fetched, rng, j, stepErr,
                   result>>

\* NFD.addState(path): build the stage of the directory and append its
\* control functions and its bundle. A panic in addResourcesControls
\* unwinds Reconcile before anything is appended.
addState(p, at, path, next) ==
    /\ ~aborted
    /\ pc[p] = at
    /\ LET built == addResourcesControls(path) IN
        IF built.panicked
        THEN /\ aborted' = TRUE
             /\ pc' = [pc EXCEPT ![p] = "panicked"]
             /\ UNCHANGED <<controls, resources, hist>>
        ELSE /\ controls' = Append(controls, built.ctrl)
             /\ resources' = Append(resources, built.res)
             /\ hist' = [hist EXCEPT ![p].skips = @ + built.skips]
             /\ pc' = [pc EXCEPT ![p] = next]
             /\ UNCHANGED aborted
    /\ UNCHANGED <<fs, rec, ins, idx, instance, fetched, rng, j, stepErr,
                   result>>

\* An init() that builds the first stage from the worker directory.
addStateMasterFromWorker(p) ==
    addState(p, "addMaster", Paths[2], "addWorker")

\* NFD.init, lines 246-247
addStateMaster(p) == addState(p, "addMaster", Paths[1], "addWorker")
addStateWorker(p) == addState(p, "addWorker", Paths[2], "step")

\* NFD.step, line 256: the range expression n.controls[n.idx] is evaluated
\* once; an index outside the slice panics.
stepEnter(p) ==
    /\ ~aborted
    /\ pc[p] = "step"
    /\ hist' = [hist EXCEPT ![p].steps = @ + 1, ![p].entryIdx = idx]
    /\ IF idx < Len(controls)
       THEN /\ rng' = [rng EXCEPT ![p] = controls[idx + 1]]
            /\ j' = [j EXCEPT ![p] = 1]
            /\ pc' = [pc EXCEPT ![p] = "call"]
            /\ UNCHANGED aborted
       ELSE /\ aborted' = TRUE
            /\ pc' = [pc EXCEPT ![p] = "panicked"]
            /\ UNCHANGED <<rng, j>>
    /\ UNCHANGED <<fs, nfdVars, instance, fetched, stepErr, result>>

\* A step() without the test of stat.
stepOutcomeNoStatus(res) ==
    IF res = CtlError THEN [stop |-> TRUE, err |-> ControlErr]
    ELSE [stop |-> FALSE, err |-> NilErr]

\* A step() without the test of err.
stepOutcomeNoErrTest(res) ==
    IF res = NotReady THEN [stop |-> TRUE, err |-> ResourceNotReady]
    ELSE [stop |-> FALSE, err |-> NilErr]

\* A step() that reports every failure as ResourceNotReady.
stepOutcomeOneError(res) ==
    IF res # Ready THEN [stop |-> TRUE, err |-> ResourceNotReady]
    ELSE [stop |-> FALSE, err |-> NilErr]

\* What step() does with the (stat, err) a control function returned:
\* "stop" with an error to return, or go on to the next function.
stepOutcome(res) ==
    IF res = CtlError THEN [stop |-> TRUE, err |-> ControlErr]
    ELSE IF res # Ready THEN [stop |-> TRUE, err |-> ResourceNotReady]
    ELSE [stop |-> FALSE, err |-> NilErr]

\* NFD.step, lines 256-264: call the next control function of the stage
\* with a copy of the stepper; return at the first error or non-Ready
\* status. The call's outcome is the environment's.
stepCall(p) ==
    /\ ~aborted
    /\ pc[p] = "call"
    /\ j[p] <= Len(rng[p])
    /\ \E res \in ControlResults :
        LET out == stepOutcome(res)
            call == [step |-> hist[p].steps, stage |-> hist[p].entryIdx,
                     pos |-> j[p], fn |-> rng[p][j[p]], res |-> res,
                     ins |-> ins, idx |-> idx]
        IN  /\ hist' = [hist EXCEPT ![p].calls = Append(@, call)]
            /\ IF out.stop
               THEN /\ stepErr' = [stepErr EXCEPT ![p] = out.err]
                    /\ pc' = [pc EXCEPT ![p] = "stepRet"]
                    /\ UNCHANGED j
               ELSE /\ j' = [j EXCEPT ![p] = @ + 1]
                    /\ UNCHANGED <<stepErr, pc>>
    /\ UNCHANGED <<fs, nfdVars, aborted, instance, fetched, rng, result>>

\* NFD.step, lines 264-268: when the range loop is over (rangeDone), set
\* the cursor to newIdx and return nil.
stepAdvanceTo(p, rangeDone, newIdx) ==
    /\ ~aborted
    /\ pc[p] = "call"
    /\ rangeDone
    /\ idx' = newIdx
    /\ stepErr' = [stepErr EXCEPT ![p] = NilErr]
    /\ hist' = [hist EXCEPT ![p].okSteps = @ + 1]
    /\ pc' = [pc EXCEPT ![p] = "stepRet"]
    /\ UNCHANGED <<fs, controls, resources, rec, ins, aborted, instance,
                   fetched, rng, j, result>>

\* A range loop that ends one function early.
stepAdvanceSkipsLast(p) ==
    stepAdvanceTo(p, j[p] >= Len(rng[p]), idx + 1)

\* An increment by two.
stepAdvanceByTwo(p) ==
    stepAdvanceTo(p, j[p] > Len(rng[p]), idx + 2)

\* A cursor that wraps around at the end of the stage list.
stepAdvanceWraps(p) ==
    stepAdvanceTo(p, j[p] > Len(rng[p]), (idx + 1) % Len(controls))

\* A step() that returns nil without moving the cursor.
stepAdvanceStays(p) ==
    stepAdvanceTo(p, j[p] > Len(rng[p]), idx)

\* NFD.step, lines 266-268: every function was Ready; advance the cursor
\* by one.
stepAdvance(p) ==
    stepAdvanceTo(p, j[p] > Len(rng[p]), idx + 1)

\* A Reconcile that drops the error of step().
stepErrorResultDropped(err) == [requeue |-> FALSE, err |-> NilErr]

\* Reconcile, line 173: return reconcile.Result{}, err
stepErrorResult(err) == [requeue |-> FALSE, err |-> err]

\* A Reconcile that asks for a requeue when it has converged.
convergedResultRequeue == [requeue |-> TRUE, err |-> NilErr]

\* Reconcile, line 180: return ctrl.Result{}, nil
convergedResult == [requeue |-> FALSE, err |-> NilErr]

\* Reconcile, lines 171-174: return the error of step(), with a zero Result.
stepReturned(p) ==
    /\ ~aborted
    /\ pc[p] = "stepRet"
    /\ IF stepErr[p] # NilErr
       THEN /\ result' = [result EXCEPT
                    ![p] = stepErrorResult(stepErr[p])]
            /\ pc' = [pc EXCEPT ![p] = "done"]
       ELSE /\ pc' = [pc EXCEPT ![p] = "last"]
            /\ UNCHANGED result
    /\ UNCHANGED <<fs, nfdVars, aborted, instance, fetched, rng, j,
                   stepErr, hist>>

\* Reconcile, lines 175-180: leave the loop when last() holds and return a
\* zero Result with no error; otherwise step again.
lastCheck(p) ==
    /\ ~aborted
    /\ pc[p] = "last"
    /\ hist' = [hist EXCEPT ![p].lasts = Append(@, last)]
    /\ IF last
       THEN /\ result' = [result EXCEPT ![p] = convergedResult]
            /\ pc' = [pc EXCEPT ![p] = "done"]
       ELSE /\ pc' = [pc EXCEPT ![p] = "step"]
            /\ UNCHANGED result
    /\ UNCHANGED <<fs, nfdVars, aborted, instance, fetched, rng, j,
                   stepErr>>

\* The dispatcher takes the result; the invocation is over.
Return(p) ==
    /\ ~aborted
    /\ pc[p] = "done"
    /\ pc' = [pc EXCEPT ![p] = "idle"]
    /\ instance' = [instance EXCEPT ![p] = "nil"]
    /\ fetched' = [fetched EXCEPT ![p] = "none"]
    /\ rng' = [rng EXCEPT ![p] = <<>>]
    /\ j' = [j EXCEPT ![p] = 0]
    /\ stepErr' = [stepErr EXCEPT ![p] = NilErr]
    /\ result' = [result EXCEPT ![p] = NoResult]
    /\ hist' = [hist EXCEPT ![p] = EmptyHist]
    /\ UNCHANGED <<fs, nfdVars, aborted>>

\* No other invocation is in flight.
Alone(p) == \A q \in Procs \ {p} : pc[q] = "idle"

\* The controller as SetupWithManager builds it: no option raises
\* MaxConcurrentReconciles, so one worker runs one Reconcile at a time.
Next ==
    \E p \in Procs :
        \/ Alone(p) /\ Reconcile(p)
        \/ init(p)
        \/ addStateMaster(p)
        \/ addStateWorker(p)
        \/ stepEnter(p)
        \/ stepCall(p)
        \/ stepAdvance(p)
        \/ stepReturned(p)
        \/ lastCheck(p)
        \/ Return(p)

Spec == Init /\ [][Next]_vars

\* The same controller over master directories of every kind of manifest.
InitBuild == InitWith(BuildDirs, BuildWorkerDirs)

SpecBuild == InitBuild /\ [][Next]_vars

\* Reconcile invocations that overlap, as a dispatcher with several workers
\* runs them: each worker runs one invocation, at any time.
NextConc ==
    \E p \in Procs :
        \/ Reconcile(p)
        \/ init(p)
        \/ addStateMaster(p)
        \/ addStateWorker(p)
        \/ stepEnter(p)
        \/ stepCall(p)
        \/ stepAdvance(p)
        \/ stepReturned(p)
        \/ lastCheck(p)

\* Overlapping invocations are explored over directories of at most
\* MaxConcFiles files.
InitConc == InitOver(SeqsUpTo(FsManifests, MaxConcFiles))

SpecConc == InitConc /\ [][NextConc]_vars

\* The controller with its scheduling: the worker goroutine runs a Reconcile
\* to its return or its panic, and the dispatcher takes the result and
\* hands the worker the next request (a failed pass is requeued).
InitLive == InitOver(SeqsUpTo(FsManifests, MaxLiveFiles))

SpecLive == InitLive /\ [][Next]_vars /\ WF_vars(Next)

\* ------------------------------------------------------------------ claims

\* The calls of one pass, and the control functions of stage k (0-based).
Calls(p) == hist[p].calls
Stage(k) == controls[k + 1]

\* C1: within one step() call the control functions of the current stage
\* are invoked in list order, and once one returns a non-Ready status or
\* an error no later control function is invoked in that call.
C1_ShortCircuit ==
    \A p \in Procs :
        \A b \in 1..Len(Calls(p)) :
            LET c == Calls(p)[b] IN
            /\ c.stage < Len(controls)
            /\ c.pos <= Len(Stage(c.stage))
            /\ c.fn = Stage(c.stage)[c.pos]
            /\ IF b > 1 /\ Calls(p)[b - 1].step = c.step
               THEN /\ Calls(p)[b - 1].res = Ready
                    /\ c.pos = Calls(p)[b - 1].pos + 1
               ELSE c.pos = 1

\* A step() has returned after a non-Ready call that was not the last
\* control function of its stage.
C1_Witness ==
    \E p \in Procs :
        /\ pc[p] = "done"
        /\ Len(Calls(p)) > 0
        /\ LET c == Calls(p)[Len(Calls(p))] IN
            /\ c.res # Ready
            /\ c.pos < Len(Stage(c.stage))

\* C2: when Reconcile invocations for distinct instances overlap, every
\* control function invoked for one of them sees that invocation's own
\* instance and own cursor (the stage step() is running for it).
C2_IsolatedStepperState ==
    \A p \in Procs :
        (\A q \in Procs \ {p} : instance[q] # instance[p]) =>
            \A b \in 1..Len(Calls(p)) :
                /\ Calls(p)[b].ins = instance[p]
                /\ Calls(p)[b].idx = Calls(p)[b].stage

\* C3: in one pass no control function of stage k+1 is invoked unless
\* every control function of stage k returned Ready earlier in that pass.
C3_AdvanceOnlyWhenStageReady ==
    \A p \in Procs :
        \A b \in 1..Len(Calls(p)) :
            LET c == Calls(p)[b] IN
            c.stage > 0 =>
                \A pos \in 1..Len(Stage(c.stage - 1)) :
                    \E a \in 1..(b - 1) :
                        /\ Calls(p)[a].stage = c.stage - 1
                        /\ Calls(p)[a].pos = pos
                        /\ Calls(p)[a].res = Ready

\* A control function of the second stage is invoked after the two control
\* functions of the first stage.
C3_Witness ==
    \E p \in Procs :
        /\ Len(Calls(p)) > 2
        /\ Calls(p)[Len(Calls(p))].stage = 1
        /\ Len(Stage(0)) = 2

\* The recognized manifests of a directory, in file order.
DecodeOrder(path) ==
    LET kinds == [i \in 1..Len(fs[path]) |-> fs[path][i].kind]
    IN  SelectSeq(kinds, LAMBDA k : k \in SwitchKinds)

\* C4: stages run in append order, master before worker, and within a
\* stage the control functions run in the order their manifests were
\* decoded: the calls of a pass are a prefix of master's functions in
\* decode order followed by worker's.
C4_AppendAndDecodeOrder ==
    \A p \in Procs :
        \A b \in 1..Len(Calls(p)) :
            LET c == Calls(p)[b] IN
            /\ c.stage \in {0, 1}
            /\ c.pos <= Len(DecodeOrder(Paths[c.stage + 1]))
            /\ c.fn = DecodeOrder(Paths[c.stage + 1])[c.pos]
            /\ b > 1 =>
                LET a == Calls(p)[b - 1] IN
                \/ a.stage = c.stage /\ c.pos = a.pos + 1
                \/ /\ a.stage + 1 = c.stage
                   /\ a.pos = Len(DecodeOrder(Paths[a.stage + 1]))
                   /\ c.pos = 1
            /\ b = 1 =>
                /\ c.pos = 1
                /\ c.stage = 0 \/ DecodeOrder(Paths[1]) = <<>>

\* A pass has run two different master functions and then a worker function
\* that master does not have.
C4_Witness ==
    \E p \in Procs :
        /\ Len(Calls(p)) = 3
        /\ Calls(p)[1].fn # Calls(p)[2].fn
        /\ Calls(p)[3].stage = 1
        /\ DecodeOrder(Paths[1]) # DecodeOrder(Paths[2])
        /\ Len(fs[Paths[2]]) = 2

\* The calls the step() now returning made.
StepCalls(p) ==
    SelectSeq(Calls(p), LAMBDA c : c.step = hist[p].steps)

\* C5: a step() call in which every control function of the current stage
\* returned Ready returns no error and has increased the cursor by exactly
\* one; a step() call that returns an error has not changed the cursor.
C5_CursorPerStep ==
    \A p \in Procs :
        pc[p] = "stepRet" =>
            LET allReady ==
                    /\ Len(StepCalls(p)) = Len(Stage(hist[p].entryIdx))
                    /\ \A i \in 1..Len(StepCalls(p)) :
                            StepCalls(p)[i].res = Ready
            IN  /\ allReady => stepErr[p] = NilErr /\ idx = hist[p].entryIdx + 1
                /\ stepErr[p] # NilErr => idx = hist[p].entryIdx
                /\ stepErr[p] = NilErr => allReady

\* The second step() of a pass has returned with an error, after the first
\* had succeeded over a stage of two functions.
C5_Witness ==
    \E p \in Procs :
        /\ pc[p] = "stepRet"
        /\ hist[p].steps = 2
        /\ stepErr[p] # NilErr
        /\ Len(Stage(0)) = 2
        /\ idx = 1

\* C6 as stated: no step of the program ever decreases the cursor.
C6_CursorNeverDecreases == [][idx' >= idx]_vars

\* An init() call is the step being taken.
InitActs == \E p \in Procs : pc[p] = "init" /\ pc'[p] # "init"

\* C6, amended: the cursor never decreases except that init() resets it
\* to 0; step() and last() never decrease it.
C6_CursorDecreasesOnlyAtInit ==
    [][/\ ~InitActs => idx' >= idx
       /\ InitActs => idx' = 0]_vars

\* A pass that init() began on a built stepper, whatever the cursor was,
\* has advanced the cursor to the end of the stage list.
C6_Witness ==
    \E p \in Procs :
        /\ pc[p] = "done"
        /\ hist[p].inits = 1
        /\ hist[p].okSteps = 2
        /\ idx = 2

\* A last() call is the step being taken by p.
LastActs(p) == pc[p] = "last" /\ pc'[p] # "last"

\* C7: last() returns true if and only if the cursor equals the number of
\* stages, and it changes no state of the stepper.
C7_LastIffCursorAtEnd ==
    [][\A p \in Procs :
        LastActs(p) =>
            /\ UNCHANGED nfdVars
            /\ hist'[p].lasts =
                    Append(hist[p].lasts, idx = Len(controls))
            /\ (pc'[p] = "done") <=> (idx = Len(controls))]_vars

\* last() has returned false after the first stage of two.
C7_Witness ==
    \E p \in Procs :
        /\ pc[p] = "step"
        /\ hist[p].lasts = <<FALSE>>
        /\ idx = 1
        /\ Len(controls) = 2

\* Every control function called in the pass returned Ready.
AllReady(p) ==
    \A b \in 1..Len(Calls(p)) : Calls(p)[b].res = Ready

\* C8: when the fetch succeeds and every control function of every stage
\* returns Ready, Reconcile makes exactly one successful step() per stage
\* (two), last() first holds after the last of them, and Reconcile returns
\* requeue=false with a nil error.
C8_ConvergedPass ==
    \A p \in Procs :
        (pc[p] = "done" /\ fetched[p] = "ok" /\ AllReady(p)) =>
            /\ hist[p].steps = 2
            /\ hist[p].okSteps = 2
            /\ Len(controls) = 2
            /\ hist[p].lasts = <<FALSE, TRUE>>
            /\ Len(Calls(p)) = Len(Stage(0)) + Len(Stage(1))
            /\ result[p] = [requeue |-> FALSE, err |-> NilErr]

\* A pass over two stages of two control functions each has converged.
C8_Witness ==
    \E p \in Procs :
        /\ pc[p] = "done"
        /\ fetched[p] = "ok"
        /\ AllReady(p)
        /\ Len(Calls(p)) = 4

\* The pass of p ended on a control function that was not Ready.
FailedPass(p) ==
    /\ pc[p] = "done"
    /\ fetched[p] = "ok"
    /\ ~AllReady(p)

\* C9 as stated: when a control function reports NotReady or returns an
\* error, step() returns an error, the cursor keeps its value, and
\* Reconcile returns requeue=true together with that error.
C9_RequeueTrueOnStepError ==
    \A p \in Procs :
        FailedPass(p) =>
            /\ stepErr[p] # NilErr
            /\ idx = hist[p].entryIdx
            /\ result[p] = [requeue |-> TRUE, err |-> stepErr[p]]

\* C9, amended: Reconcile returns that error with a zero Result, whose
\* requeue is false.
C9_ErrorWithZeroResult ==
    \A p \in Procs :
        FailedPass(p) =>
            /\ stepErr[p] # NilErr
            /\ idx = hist[p].entryIdx
            /\ hist[p].okSteps = idx
            /\ result[p] = [requeue |-> FALSE, err |-> stepErr[p]]

\* The first stage's control function reported NotReady: the cursor is 0.
C9_Witness ==
    \E p \in Procs :
        /\ FailedPass(p)
        /\ Len(Calls(p)) = 1
        /\ Calls(p)[1].res = NotReady
        /\ idx = 0

\* The fetch of p's Reconcile is the step being taken, and says not-found.
NotFoundActs(p) ==
    pc[p] = "idle" /\ pc'[p] # "idle" /\ fetched'[p] = "notfound"

\* C10: when the fetch reports not-found, Reconcile returns requeue=false
\* and a nil error without calling init() or step(); cursor, bound instance
\* and stage list are unchanged.
C10_NotFoundLeavesStepper ==
    [][\A p \in Procs :
        /\ NotFoundActs(p) =>
            /\ pc'[p] = "done"
            /\ result'[p] = [requeue |-> FALSE, err |-> NilErr]
            /\ hist'[p].inits = 0
            /\ hist'[p].steps = 0
            /\ UNCHANGED nfdVars
        /\ (pc[p] = "done" /\ fetched[p] = "notfound") =>
            /\ pc'[p] = "idle"
            /\ UNCHANGED nfdVars]_vars

\* Reconcile has returned on not-found while the stepper holds the stages
\* and the cursor of an earlier pass.
C10_Witness ==
    \E p \in Procs :
        /\ pc[p] = "done"
        /\ fetched[p] = "notfound"
        /\ result[p] = [requeue |-> FALSE, err |-> NilErr]
        /\ Len(controls) = 2
        /\ idx = 2
        /\ ins # "nil"

\* The fetch of p's Reconcile is the step being taken, and fails with an
\* error other than not-found.
FetchErrorActs(p) ==
    pc[p] = "idle" /\ pc'[p] # "idle" /\ fetched'[p] = "error"

\* C11: when the fetch fails for a reason other than not-found, Reconcile
\* returns requeue=true with the fetch error and does not call init() or
\* step(); the stepper is unchanged.
C11_FetchErrorRequeues ==
    [][\A p \in Procs :
        /\ FetchErrorActs(p) =>
            /\ pc'[p] = "done"
            /\ result'[p] = [requeue |-> TRUE, err |-> FetchErr]
            /\ hist'[p].inits = 0
            /\ hist'[p].steps = 0
            /\ UNCHANGED nfdVars
        /\ (pc[p] = "done" /\ fetched[p] = "error") =>
            /\ pc'[p] = "idle"
            /\ UNCHANGED nfdVars]_vars

\* Reconcile has returned the fetch error while the stepper holds the
\* stages, the instance and the cursor of an earlier pass that did not
\* converge.
C11_Witness ==
    \E p \in Procs :
        /\ pc[p] = "done"
        /\ fetched[p] = "error"
        /\ result[p] = [requeue |-> TRUE, err |-> FetchErr]
        /\ Len(controls) = 2
        /\ idx = 1
        /\ ins # "nil"

\* Reconcile has returned requeue=false and a nil error after a fetch that
\* succeeded.
SuccessAfterFetch(p) ==
    /\ pc[p] = "done"
    /\ fetched[p] = "ok"
    /\ result[p] = [requeue |-> FALSE, err |-> NilErr]

\* C12: Reconcile returns requeue=false with a nil error after a successful
\* fetch only when the pass converged: every control function of every
\* configured stage was invoked in that pass and returned Ready.
C12_SuccessOnlyWhenConverged ==
    \A p \in Procs :
        SuccessAfterFetch(p) =>
            /\ Len(controls) = Len(Paths)
            /\ idx = Len(controls)
            /\ \A k \in 0..(Len(controls) - 1) :
                \A pos \in 1..Len(Stage(k)) :
                    \E b \in 1..Len(Calls(p)) :
                        /\ Calls(p)[b].stage = k
                        /\ Calls(p)[b].pos = pos
                        /\ Calls(p)[b].fn = Stage(k)[pos]
                        /\ Calls(p)[b].res = Ready

\* Reconcile has reported success for a pass over a master stage of two
\* control functions and a worker stage of one.
C12_Witness ==
    \E p \in Procs :
        /\ SuccessAfterFetch(p)
        /\ Len(Stage(0)) = 2
        /\ Len(Stage(1)) = 1

\* An init() call is the step being taken by p.
InitActsFor(p) == pc[p] = "init" /\ pc'[p] # "init"

\* C13: init() builds and appends the configured stages, master then
\* worker, on the first call only; every later call of non-overlapping
\* reconciliations binds the given instance and resets the cursor to 0 and
\* leaves the stage list as it is.
C13_StagesBuiltOnce ==
    [][/\ \A p \in Procs :
            InitActsFor(p) =>
                /\ ins' = instance[p]
                /\ idx' = 0
                /\ UNCHANGED <<controls, resources>>
                /\ pc'[p] = IF Len(controls) = 0 THEN "addMaster" ELSE "step"
       /\ (controls' # controls \/ resources' # resources) =>
            /\ Len(controls) < Len(Paths)
            /\ LET built == addResourcesControls(Paths[Len(controls) + 1])
               IN  /\ controls' = Append(controls, built.ctrl)
                   /\ resources' = Append(resources, built.res)]_vars

\* An init() that found the stages built has bound its instance and reset the
\* cursor, and step() is next.
C13_Witness ==
    \E p \in Procs :
        /\ pc[p] = "step"
        /\ hist[p].reused
        /\ hist[p].steps = 0
        /\ Len(controls) = 2
        /\ Len(Stage(0)) = 2
        /\ idx = 0
        /\ ins = instance[p]

\* The positions of the files of a directory whose kind is none of the
\* kinds the stage builder knows.
UnknownFiles(path) ==
    {i \in 1..Len(fs[path]) : fs[path][i].kind \notin SwitchKinds}

\* Every file of the directory carries a kind, and every manifest of a
\* known kind decodes.
Decodable(path) ==
    \A i \in 1..Len(fs[path]) :
        /\ fs[path][i].kind # NoKind
        /\ fs[path][i].decodes

\* The stage of Paths[k] has been built and appended.
StageBuilt(k) == Len(controls) >= k /\ Len(resources) >= k

\* C14: a directory of N files of which K have an unrecognized kind builds
\* into exactly N-K control functions and K skip log events, without
\* failing; with no unrecognized kind there is one control function per file.
C14_ControlsCountFiles ==
    /\ \A k \in 1..Len(Paths) :
        LET path == Paths[k]
            built == addResourcesControls(path)
            N == Len(fs[path])
            K == Cardinality(UnknownFiles(path))
        IN  /\ Decodable(path) =>
                /\ ~built.panicked
                /\ Len(built.ctrl) = N - K
                /\ built.skips = K
            /\ (Decodable(path) /\ StageBuilt(k)) =>
                Len(controls[k]) = N - K
    /\ \A p \in Procs :
        (pc[p] = "step" /\ hist[p].steps = 0 /\ ~hist[p].reused) =>
            hist[p].skips = Cardinality(UnknownFiles(Paths[1]))
                            + Cardinality(UnknownFiles(Paths[2]))

\* The pass that built the stages logged one skip for a master directory
\* of a known and an unknown kind, which gave one control function.
C14_Witness ==
    \E p \in Procs :
        /\ pc[p] = "step"
        /\ hist[p].skips = 1
        /\ Len(fs[Paths[1]]) = 2
        /\ fs[Paths[1]][1].kind = "Frobnicator"
        /\ StageBuilt(2)
        /\ Len(controls[1]) = 1

\* C16: the control-function list of a stage holds one control function
\* for each decoded manifest of a recognized kind, in decode order (a kind
\* that occurs twice gives two), and nothing for a skipped manifest.
C16_ControlsInDecodeOrder ==
    \A k \in 1..Len(Paths) :
        /\ ~addResourcesControls(Paths[k]).panicked =>
            addResourcesControls(Paths[k]).ctrl = DecodeOrder(Paths[k])
        /\ StageBuilt(k) => controls[k] = DecodeOrder(Paths[k])

\* The master stage holds two control functions of one kind.
C16_Witness ==
    /\ StageBuilt(1)
    /\ Len(controls[1]) = 2
    /\ controls[1][1] = controls[1][2]

\* The position of the last file of kind k in the directory, or the zero
\* value when there is none.
LastOfKind(path, k) ==
    LET at == {i \in 1..Len(fs[path]) : fs[path][i].kind = k}
    IN  IF at = {} THEN ZeroValue
        ELSE CHOOSE i \in at : \A i2 \in at : i2 <= i

DecodeFails(path) ==
    \E i \in 1..Len(fs[path]) :
        fs[path][i].kind \in SwitchKinds /\ ~fs[path][i].decodes

\* C15: a manifest that cannot be decoded against the schema of its
\* recognized kind makes stage construction fail with an error returned to
\* the caller; it never aborts the process: no Reconcile ends in a panic.
C15_DecodeErrorNeverAborts ==
    (\E k \in 1..Len(Paths) : DecodeFails(Paths[k])) =>
        /\ ~aborted
        /\ \A p \in Procs : pc[p] # "panicked"

\* C18: step() tells "not ready yet" from a hard error: after a control
\* function returned a non-Ready status and no error, step() returns the
\* ResourceNotReady error; after one returned an error, step() returns that
\* error; the two are never the same value.
C18_NotReadyDistinctFromError ==
    \A p \in Procs :
        (pc[p] = "stepRet" /\ Len(StepCalls(p)) > 0) =>
            LET c == StepCalls(p)[Len(StepCalls(p))] IN
            /\ c.res = NotReady =>
                stepErr[p] = ResourceNotReady /\ stepErr[p] # ControlErr
            /\ c.res = CtlError =>
                stepErr[p] = ControlErr /\ stepErr[p] # ResourceNotReady
            /\ c.res = Ready => stepErr[p] = NilErr

\* The second step() of a pass has returned the error of its second
\* control function.
C18_Witness ==
    \E p \in Procs :
        /\ pc[p] = "stepRet"
        /\ stepErr[p] = ControlErr
        /\ hist[p].steps = 2
        /\ Len(StepCalls(p)) = 2

\* C19: under any interleaving of Reconcile invocations the cursor stays
\* within 0..len(controls) and step() is entered only with the cursor
\* below len(controls), so it never indexes past the end of the stage list.
C19_CursorInRange ==
    /\ idx \in 0..Len(controls)
    /\ \A p \in Procs :
        hist[p].steps > 0 =>
            /\ hist[p].entryIdx < Len(controls)
            /\ pc[p] # "panicked"

\* C20: after any interleaving of overlapping init() calls the stepper
\* holds exactly the configured stages, master then worker, none twice.
C20_NoDuplicateStages ==
    /\ Len(controls) <= Len(Paths)
    /\ Len(resources) <= Len(Paths)
    /\ \A k \in 1..Len(controls) :
        k <= Len(Paths) =>
            controls[k] = addResourcesControls(Paths[k]).ctrl

\* The step being taken is neither a fetch that fails nor a control-function
\* call that returns something other than Ready.
FetchOkAndReady ==
    \A p \in Procs :
        /\ (pc[p] = "idle" /\ pc'[p] # "idle") => fetched'[p] = "ok"
        /\ Len(hist'[p].calls) > Len(hist[p].calls) =>
                hist'[p].calls[Len(hist'[p].calls)].res = Ready

\* A Reconcile pass has returned no error with last() true.
ConvergedReturn ==
    \E p \in Procs :
        /\ pc[p] = "done"
        /\ fetched[p] = "ok"
        /\ result[p].err = NilErr
        /\ last

\* C21: if from some point on every fetch succeeds and every control
\* function returns Ready, and Reconcile is invoked again after every pass,
\* then eventually a Reconcile pass returns no error with last() true.
C21_EventuallyConverges ==
    <>[][FetchOkAndReady]_vars => <>ConvergedReturn

\* Both manifest directories build: every file carries a kind and every
\* manifest of a recognized kind decodes.
StagesBuild == \A k \in 1..Len(Paths) : Decodable(Paths[k])

\* C21 where both manifest directories build.
C21_ConvergesWhenStagesBuild ==
    (StagesBuild /\ <>[][FetchOkAndReady]_vars) => <>ConvergedReturn

\* The loop of p's Reconcile is running: init() has returned and Reconcile
\* has not.
InLoop(p) == pc[p] \in {"step", "call", "stepRet", "last"}

\* C22: the loop of a Reconcile that overlaps no other makes at most as
\* many step() calls as there are stages, every step() before the last one
\* having succeeded, and then Reconcile returns: the error of the first
\* step() that failed, or success after one successful step() per stage.
C22_LoopTerminates ==
    /\ [](\A p \in Procs :
            /\ hist[p].steps <= Len(controls)
            /\ InLoop(p) => hist[p].okSteps >= hist[p].steps - 1
            /\ (pc[p] = "done" /\ fetched[p] = "ok") =>
                \/ /\ result[p] = [requeue |-> FALSE, err |-> stepErr[p]]
                   /\ stepErr[p] # NilErr
                   /\ hist[p].okSteps = hist[p].steps - 1
                \/ /\ result[p] = [requeue |-> FALSE, err |-> NilErr]
                   /\ hist[p].okSteps = Len(controls)
                   /\ hist[p].steps = Len(controls))
    /\ \A p \in Procs : InLoop(p) ~> (pc[p] = "done")

\* A Reconcile has returned the error of its second step() call.
C22_Witness ==
    \E p \in Procs :
        /\ pc[p] = "done"
        /\ hist[p].steps = 2
        /\ hist[p].okSteps = 1
        /\ result[p].err = ResourceNotReady

\* The stage list holds some but not all of the configured stages.
PartialStageList == Len(controls) \in 1..(Len(Paths) - 1)

\* C23: when building a stage fails in init(), no Reconcile pass runs its
\* loop against, or reports convergence on, a stage list with fewer than
\* all configured stages: the failure ends the process, so a stepper left
\* with a partial list is never used again.
C23_PartialStageListNeverUsed ==
    /\ \A p \in Procs :
        (InLoop(p) \/ (pc[p] = "done" /\ fetched[p] = "ok")) =>
            /\ Len(controls) = Len(Paths)
            /\ Len(resources) = Len(Paths)
    /\ aborted =>
        \E p \in Procs :
            /\ pc[p] = "panicked"
            /\ hist[p].steps = 0
            /\ \A q \in Procs \ {p} : pc[q] = "idle"
    /\ PartialStageList =>
        \A p \in Procs : pc[p] \in {"idle", "addWorker", "panicked"}

\* The master stage was built and building the worker stage failed.
C23_Witness ==
    /\ aborted
    /\ Len(controls) = 1
    /\ Len(controls[1]) = 2
    /\ addResourcesControls(Paths[2]).panicked

\* The number of files of the directory whose kind is among kinds.
CountOfKinds(path, kinds) ==
    Cardinality({i \in 1..Len(fs[path]) : fs[path][i].kind \in kinds})

\* C24: a manifest in which no kind label is found is skipped like an
\* unrecognized kind: where every manifest of a recognized kind decodes,
\* the build never panics, and each built stage holds one control function
\* per manifest of a recognized kind.
C24_NoKindSkipped ==
    (\A k \in 1..Len(Paths) : ~DecodeFails(Paths[k])) =>
        /\ ~aborted
        /\ \A p \in Procs : pc[p] # "panicked"
        /\ \A k \in 1..Len(Paths) :
            StageBuilt(k) =>
                Len(controls[k]) = CountOfKinds(Paths[k], SwitchKinds)

\* C25: a manifest of any kind that has a field in Resources populates
\* that field and appends one control function: each built stage holds one
\* control function per decodable manifest of such a kind, and the field of
\* every such kind present in the directory is set.
C25_EveryBundleKindRecognized ==
    \A k \in 1..Len(Paths) :
        (StageBuilt(k) /\ Decodable(Paths[k])) =>
            /\ Len(controls[k]) = CountOfKinds(Paths[k], ResourcesFields)
            /\ \A i \in 1..Len(fs[Paths[k]]) :
                LET kind == fs[Paths[k]][i].kind IN
                kind \in ResourcesFields =>
                    resources[k][kind] # ZeroValue

\* The bundle and the control functions at index k of the two lists were
\* built from one directory.
PairedAt(k) ==
    \E path \in {Paths[n] : n \in 1..Len(Paths)} :
        /\ controls[k] = addResourcesControls(path).ctrl
        /\ resources[k] = addResourcesControls(path).res

\* C26: between the calls of addState() the bundle list and the list of
\* control-function lists have the same length and hold at each index a
\* bundle and the control functions of one directory; every control
\* function step() calls runs at the cursor of its own stage, where the
\* bundle holds the manifest decoded for that function.
C26_ListsPaired ==
    /\ Len(controls) = Len(resources)
    /\ \A k \in 1..Len(controls) : PairedAt(k)
    /\ \A p \in Procs :
        \A b \in 1..Len(Calls(p)) :
            LET c == Calls(p)[b] IN
            /\ c.idx = c.stage
            /\ c.idx < Len(resources)
            /\ c.fn = controls[c.idx + 1][c.pos]
            /\ resources[c.idx + 1][c.fn] # ZeroValue

\* The Namespace function of the master stage and then the DaemonSet
\* function of the worker stage have run, each directory holding a kind
\* the other does not.
C26_Witness ==
    \E p \in Procs :
        /\ Len(Calls(p)) = 2
        /\ Calls(p)[1].fn = "Namespace"
        /\ Calls(p)[2].fn = "DaemonSet"
        /\ Calls(p)[2].stage = 1
        /\ resources[1]["DaemonSet"] = ZeroValue
        /\ resources[2]["Namespace"] = ZeroValue

====
